---- MODULE Spec2Model ----
(***************************************************************************)
(* Model of the pair comparator (src/main.go): interner, preprocessor,     *)
(* pair-key builder, validator with its generation-stamped presence        *)
(* buffer, worker pool with per-worker sinks, progress monitor and merge.  *)
(*                                                                         *)
(* Strings are sequences of one-character strings, so that byte-wise       *)
(* comparison, whitespace tokenisation and key / line formatting are       *)
(* computed rather than assumed.                                           *)
(***************************************************************************)
EXTENDS Integers, Sequences, FiniteSets, TLC

VARIABLES
  osArgs,          \* main: len(os.Args)
  stdout,          \* main: the lines it has printed
  exitCode,        \* exit status of the process, -1 while it runs
  inputDoc,        \* main: the decoded document (kept after rawData = nil)
  allNamesList,    \* main: rawData.AllNames
  numWorkers,      \* main: runtime.NumCPU()
  NameWords,       \* ProcessedData.NameWords      name -> seq of ids
  WordToMatches,   \* ProcessedData.WordToMatches  id -> seq of ids
  TradeoutSets,    \* ProcessedData.TradeoutSets   id -> seq of ids
  PairToNames,     \* ProcessedData.PairToNames    key -> seq of names
  Dict,            \* Dictionary.intToStr (id i is element i+1)
  jobs,            \* buffered channel: indexes into allNamesList
  jobsClosed,      \* close(jobs) happened
  sent,            \* main: names sent so far by the range loop
  mainPc,          \* main: "start" | "produce" | "wait" | "signal" | "merge" |
                   \*       "done" | "usage"
  monPc,           \* monitor goroutine: "run" | "done"
  lastProgress,    \* monitor: last value of namesProcessed it printed
  namesProcessed,  \* atomic progress counter
  wpc,             \* worker: "recv" | "cand" | "done"
  dequeued,        \* worker: history of the indexes it received from jobs
  curJob,          \* worker: index of the name being processed
  pairs,           \* worker: keys built for the name being processed
  cands,           \* worker: remaining `other` names of the two inner loops
  matchesBuffer,   \* worker: presence buffer, id -> stamp
  currentGen,      \* worker: generation counter
  seenMatches,     \* worker: set of lines already written for this name
  writerBuf,       \* worker: bufio.Writer content not yet flushed
  tempFile,        \* worker: content of worker_<id>.txt
  emitted,         \* worker: history of <<job, n1, n2>> for every line written
  lastCall,        \* worker: locals of the last validateOptimized call
  output           \* content of the final output file (sequence of lines)

vars == <<osArgs, stdout, exitCode, inputDoc, allNamesList, numWorkers,
          NameWords, WordToMatches, TradeoutSets, PairToNames, Dict, jobs,
          jobsClosed, sent, mainPc, monPc, lastProgress, namesProcessed, wpc,
          dequeued, curJob, pairs, cands, matchesBuffer, currentGen,
          seenMatches, writerBuf, tempFile, emitted, lastCall, output>>

\* what main fixes before the workers start
setup == <<osArgs, inputDoc, allNamesList, numWorkers>>

\* ProcessedData
tables == <<NameWords, WordToMatches, TradeoutSets, PairToNames, Dict>>

-----------------------------------------------------------------------------
(* Bounds *)

MaxWorkers == 2      \* largest runtime.NumCPU() explored
MaxLen == 4          \* longest token vector handed to the validator harness
MaxCalls == 2        \* validator calls per behaviour of the harness

(* Program constants *)

JobsCap == 1000      \* make(chan string, 1000)
GenStart == 10       \* currentGen := uint64(10)
FlushLimit == 4096   \* writer.Buffered() > 4096
MinArgs == 3         \* len(os.Args) < 3

\* the argument vectors explored: the program name alone, with one
\* positional argument, with both
ArgCounts == {1, 2, 3}

-----------------------------------------------------------------------------
(* Strings *)

\* the characters used, in byte (ASCII) order
Alphabet == <<" ", "\"", "(", ")", ",",
              "0", "1", "2", "3", "4", "5", "6", "7", "8", "9",
              "_", "a", "b", "c", "d", "e", "f", "g", "h", "i", "j", "k", "l",
              "m", "n", "o", "p", "q", "r", "s", "t", "u", "v", "w", "x", "y",
              "z", "|">>

CharOrd(c) == CHOOSE i \in 1..Len(Alphabet) : Alphabet[i] = c

\* Go's s < t on strings: byte-wise lexicographic, a proper prefix is smaller
RECURSIVE StrLess(_, _)
StrLess(s, t) ==
  IF t = <<>> THEN FALSE
  ELSE IF s = <<>> THEN TRUE
  ELSE IF Head(s) = Head(t) THEN StrLess(Tail(s), Tail(t))
  ELSE CharOrd(Head(s)) < CharOrd(Head(t))

Range(s) == {s[i] : i \in 1..Len(s)}

StrMin(S) == CHOOSE x \in S : \A y \in S \ {x} : StrLess(x, y)

\* a set of strings in ascending byte order
RECURSIVE SortStrings(_)
SortStrings(S) ==
  IF S = {} THEN <<>> ELSE <<StrMin(S)>> \o SortStrings(S \ {StrMin(S)})

Reverse(s) == [i \in 1..Len(s) |-> s[Len(s) + 1 - i]]

RECURSIVE Concat(_)
Concat(ss) == IF ss = <<>> THEN <<>> ELSE Head(ss) \o Concat(Tail(ss))

\* strings.Fields with the space as the only white space character
RECURSIVE FieldsFrom(_, _)
FieldsFrom(s, cur) ==
  IF s = <<>> THEN (IF cur = <<>> THEN <<>> ELSE <<cur>>)
  ELSE IF Head(s) = " "
       THEN (IF cur = <<>> THEN <<>> ELSE <<cur>>) \o FieldsFrom(Tail(s), <<>>)
       ELSE FieldsFrom(Tail(s), Append(cur, Head(s)))

Fields(s) == FieldsFrom(s, <<>>)

\* fmt's %d of a non-negative integer
RECURSIVE Decimal(_)
Decimal(n) ==
  IF n < 10 THEN <<Alphabet[6 + n]>>
  ELSE Append(Decimal(n \div 10), Alphabet[6 + (n % 10)])

-----------------------------------------------------------------------------
(* Interner *)

NewDictionary == <<>>

HasStr(d, s) == \E i \in 1..Len(d) : d[i] = s

\* Dictionary.GetID on a string that is interned: ids start at 0
IdOf(d, s) == (CHOOSE i \in 1..Len(d) : d[i] = s) - 1

\* Dictionary.GetID: the dictionary after the call
GetID(d, s) == IF HasStr(d, s) THEN d ELSE Append(d, s)

\* Dictionary.GetStr
GetStr(d, id) == d[id + 1]

\* GetID on every string of ss in turn (the dictionary is tested at each
\* step, which keeps the evaluation strict)
RECURSIVE InternAll(_, _)
InternAll(d, ss) ==
  IF ss = <<>> THEN d
  ELSE IF HasStr(d, Head(ss)) THEN InternAll(d, Tail(ss))
  ELSE InternAll(GetID(d, Head(ss)), Tail(ss))

-----------------------------------------------------------------------------
(* Preprocessor *)

\* first loop of preprocessData: keys of word_to_matches in map iteration
\* order `order`, each key interned before the elements of its list
RECURSIVE InternMatches(_, _, _)
InternMatches(d, w2m, order) ==
  IF order = <<>> THEN d
  ELSE InternMatches(InternAll(d, <<Head(order)>> \o w2m[Head(order)]),
                     w2m, Tail(order))

\* second loop of preprocessData: tokens of every name, in all_names order
RECURSIVE InternNames(_, _)
InternNames(d, names) ==
  IF names = <<>> THEN d
  ELSE InternNames(InternAll(d, Fields(Head(names))), Tail(names))

ToIDs(d, ss) == [i \in 1..Len(ss) |-> IdOf(d, ss[i])]

\* the supplied list for every key, initials included
TradeoutForAlways(k, kID, matchIDs) == matchIDs

\* Logic: v if len(k) != 1 else set(k)
TradeoutFor(k, kID, matchIDs) == IF Len(k) # 1 THEN matchIDs ELSE <<kID>>

preprocessData(raw, order) ==
  LET d    == InternNames(InternMatches(NewDictionary, raw.word_to_matches, order),
                          raw.all_names)
      keys == DOMAIN raw.word_to_matches
      kOf(id) == GetStr(d, id)
      kIDs == {IdOf(d, k) : k \in keys}
      w2m  == [id \in kIDs |-> ToIDs(d, raw.word_to_matches[kOf(id)])]
  IN  [NameWords     |-> [n \in Range(raw.all_names) |-> ToIDs(d, Fields(n))],
       WordToMatches |-> w2m,
       TradeoutSets  |-> [id \in kIDs |-> TradeoutFor(kOf(id), id, w2m[id])],
       PairToNames   |-> raw.pair_to_names,
       Dict          |-> d]

-----------------------------------------------------------------------------
(* Pair-Key Builder *)

Min(S) == CHOOSE x \in S : \A y \in S : x <= y

\* sort.Slice by id followed by the unique loop
RECURSIVE SortUnique(_)
SortUnique(S) ==
  IF S = {} THEN <<>> ELSE <<Min(S)>> \o SortUnique(S \ {Min(S)})

\* positionOptions[i]: the word and its tradeouts, sorted by id, unique
PositionOptions(wordID, tradeoutSets) ==
  SortUnique({wordID} \cup
             (IF wordID \in DOMAIN tradeoutSets
              THEN Range(tradeoutSets[wordID]) ELSE {}))

\* writeIDs: decimal ids separated by commas
RECURSIVE writeIDs(_)
writeIDs(ids) ==
  IF ids = <<>> THEN <<>>
  ELSE IF Len(ids) = 1 THEN Decimal(ids[1])
  ELSE Decimal(ids[1]) \o <<",">> \o writeIDs(Tail(ids))

\* a dedup key made of the first serialisation only
DedupKeyFirstOnly(optsI, optsJ) == writeIDs(optsI)

\* the position-pair dedup key: the two serialisations, smaller first
DedupKey(optsI, optsJ) ==
  CHOOSE key \in
    {IF StrLess(s2, s1) THEN s2 \o <<"|">> \o s1 ELSE s1 \o <<"|">> \o s2 :
       s1 \in {writeIDs(optsI)}, s2 \in {writeIDs(optsJ)}} :
    TRUE

\* one pair-key: the two strings ordered by string value, joined with "_"
PairKey(str1, str2) ==
  IF StrLess(str2, str1) THEN str2 \o <<"_">> \o str1
                         ELSE str1 \o <<"_">> \o str2

\* the generation loops: opts[i] x opts[j], j innermost
ProductKeys(optsI, optsJ, dict) ==
  Concat([a \in 1..Len(optsI) |->
            [b \in 1..Len(optsJ) |->
               CHOOSE key \in {PairKey(str1, str2) :
                                 str1 \in {GetStr(dict, optsI[a])},
                                 str2 \in {GetStr(dict, optsJ[b])}} : TRUE]])

\* the position pairs (i, j), i < j, in loop order
PositionPairs(n) ==
  Concat([i \in 1..n |-> [k \in 1..(n - i) |-> <<i, i + k>>]])

\* the pair loops; the key, the seen set and the results of each round are
\* bound as values, so that each is computed once
RECURSIVE PairLoop(_, _, _, _, _)
PairLoop(pps, opts, dict, seenPairs, results) ==
  IF pps = <<>> THEN results
  ELSE CHOOSE r \in
         {IF key \in seenPairs
          THEN PairLoop(Tail(pps), opts, dict, seenPairs, results)
          ELSE CHOOSE r2 \in
                 {PairLoop(Tail(pps), opts, dict, seen2, results2) :
                    seen2 \in {seenPairs \cup {key}},
                    results2 \in {results \o ProductKeys(opts[Head(pps)[1]],
                                                           opts[Head(pps)[2]], dict)}} :
                 TRUE
          : key \in {DedupKey(opts[Head(pps)[1]], opts[Head(pps)[2]])}} :
         TRUE

\* the position loop: positionOptions[i] for every word of the name
RECURSIVE PositionLoop(_, _)
PositionLoop(parts, tradeoutSets) ==
  IF parts = <<>> THEN <<>>
  ELSE <<PositionOptions(Head(parts), tradeoutSets)>>
       \o PositionLoop(Tail(parts), tradeoutSets)

buildExpandedPairMappings(parts, tradeoutSets, dict) ==
  CHOOSE results \in
    {PairLoop(pps, positionOptions, dict, {}, <<>>) :
       pps \in {PositionPairs(Len(parts))},
       positionOptions \in {PositionLoop(parts, tradeoutSets)}} :
    TRUE

\* the replacements sorted where they are stored
OptionsInPlace(wordID, tradeoutSets) ==
  IF wordID \in DOMAIN tradeoutSets
  THEN [tradeoutSets EXCEPT ![wordID] = SortUnique(Range(@))]
  ELSE tradeoutSets

\* the table after one iteration of the position loop: opts is allocated by
\* make, append copies wordID and the replacements into it, and sort.Slice
\* and the unique loop (uniqueOpts := opts[:0]) write that array only
OptionsEffect(wordID, tradeoutSets) == tradeoutSets

\* the table after the position loop
RECURSIVE BuilderEffect(_, _)
BuilderEffect(parts, tradeoutSets) ==
  IF parts = <<>> THEN tradeoutSets
  ELSE BuilderEffect(Tail(parts), OptionsEffect(Head(parts), tradeoutSets))

\* WordToMatches as read through the slices it shares with TradeoutSets:
\* preprocessData stores one slice in both tables for a key with len(k) != 1
SharedSlices(wordToMatches, tradeoutSets, dict) ==
  [id \in DOMAIN wordToMatches |->
     IF Len(GetStr(dict, id)) # 1 THEN tradeoutSets[id] ELSE wordToMatches[id]]

-----------------------------------------------------------------------------
(* Validator *)

\* the ids stamped by a populate loop: every match of every word of `parts`
\* that has an entry, provided the id lies inside the buffer
MarkedIds(parts, wordToMatches, buf) ==
  {m \in DOMAIN buf :
     \E i \in 1..Len(parts) :
        /\ parts[i] \in DOMAIN wordToMatches
        /\ \E k \in 1..Len(wordToMatches[parts[i]]) :
             wordToMatches[parts[i]][k] = m}

Populate(parts, wordToMatches, buf, g) ==
  LET marked == MarkedIds(parts, wordToMatches, buf)
  IN  [x \in DOMAIN buf |-> IF x \in marked THEN g ELSE buf[x]]

\* naive dupe check: the word occurs at an earlier position
IsDupe(parts, i) == \E k \in 1..(i - 1) : parts[k] = parts[i]

\* the stamp test with its comparison inverted
IsMismatchInverted(wID, buf, g) == IF wID \in DOMAIN buf THEN buf[wID] = g ELSE TRUE

\* the stamp test of the two check loops
IsMismatch(wID, buf, g) == IF wID \in DOMAIN buf THEN buf[wID] # g ELSE TRUE

CountMismatches(parts, buf, g) ==
  Cardinality({i \in 1..Len(parts) :
                 ~IsDupe(parts, i) /\ IsMismatch(parts[i], buf, g)})

\* phase 2 stamping with the stamp of phase 1
Gen2Same(gen) == gen

\* gen2 := gen + 1
Gen2(gen) == gen + 1

\* the rules without the second three-token rule
ThresholdsNoR2(lenA, lenB, mismatchesA, mismatchesB) ==
  IF lenB = 3 /\ mismatchesB > 0 /\ lenA >= 3 THEN FALSE
  ELSE IF (lenA - mismatchesA < 2) \/ (lenB - mismatchesB < 2) THEN FALSE
  ELSE TRUE

\* the rules with the floor tested on A only
ThresholdsOnlyA(lenA, lenB, mismatchesA, mismatchesB) ==
  IF lenB = 3 /\ mismatchesB > 0 /\ lenA >= 3 THEN FALSE
  ELSE IF lenA = 3 /\ mismatchesA > 0 /\ lenB >= 3 THEN FALSE
  ELSE IF lenA - mismatchesA < 2 THEN FALSE
  ELSE TRUE

\* the rules with the floor rejecting only when both sides are short
ThresholdsBothShort(lenA, lenB, mismatchesA, mismatchesB) ==
  IF lenB = 3 /\ mismatchesB > 0 /\ lenA >= 3 THEN FALSE
  ELSE IF lenA = 3 /\ mismatchesA > 0 /\ lenB >= 3 THEN FALSE
  ELSE IF (lenA - mismatchesA < 2) /\ (lenB - mismatchesB < 2) THEN FALSE
  ELSE TRUE

\* the rules with a floor of three matching words
ThresholdsFloorThree(lenA, lenB, mismatchesA, mismatchesB) ==
  IF lenB = 3 /\ mismatchesB > 0 /\ lenA >= 3 THEN FALSE
  ELSE IF lenA = 3 /\ mismatchesA > 0 /\ lenB >= 3 THEN FALSE
  ELSE IF (lenA - mismatchesA < 3) \/ (lenB - mismatchesB < 3) THEN FALSE
  ELSE TRUE

\* Step 3: the three rejection rules
Thresholds(lenA, lenB, mismatchesA, mismatchesB) ==
  IF lenB = 3 /\ mismatchesB > 0 /\ lenA >= 3 THEN FALSE
  ELSE IF lenA = 3 /\ mismatchesA > 0 /\ lenB >= 3 THEN FALSE
  ELSE IF (lenA - mismatchesA < 2) \/ (lenB - mismatchesB < 2) THEN FALSE
  ELSE TRUE

\* the call: its result, its counters and the buffer it leaves behind
\* (each buffer is bound as a value, so that it is computed once)
validateOptimized(partsA, partsB, wordToMatches, matchesBuffer0, gen) ==
  LET Step3(buf1, mA, buf2, mB) ==
        [ok  |-> Thresholds(Len(partsA), Len(partsB), mA, mB),
         before |-> matchesBuffer0, buf1 |-> buf1, buf |-> buf2,
         partsA |-> partsA, partsB |-> partsB,
         lenA |-> Len(partsA), lenB |-> Len(partsB),
         mismatchesA |-> mA, mismatchesB |-> mB,
         gen |-> gen]
      Step2(buf1, mA) ==
        CHOOSE r \in {Step3(buf1, mA, buf2,
                            CountMismatches(partsB, buf2, Gen2(gen))) :
                        buf2 \in {Populate(partsA, wordToMatches, buf1, Gen2(gen))}} :
          TRUE
  IN  CHOOSE r \in {Step2(buf1, CountMismatches(partsA, buf1, gen)) :
                      buf1 \in {Populate(partsB, wordToMatches, matchesBuffer0, gen)}} :
        TRUE

-----------------------------------------------------------------------------
(* Inputs: the JSON documents explored *)

\* a mutually indexed pair, one name listed twice in all_names and one
\* name listed twice in its bucket
InputMutual ==
  [all_names       |-> << <<"a", " ", "b">>, <<"b", " ", "a">>, <<"a", " ", "b">> >>,
   word_to_matches |-> (<<"a">> :> << <<"a">> >>) @@ (<<"b">> :> << <<"b">> >>),
   pair_to_names   |-> (<<"a", "_", "b">> :>
                          << <<"a", " ", "b">>, <<"b", " ", "a">>, <<"b", " ", "a">> >>)]

\* three- and four-word names that agree on two words only
InputThree ==
  [all_names       |-> << <<"a", " ", "b", " ", "c">>, <<"a", " ", "b", " ", "d">>,
                          <<"a", " ", "b", " ", "d", " ", "e">> >>,
   word_to_matches |-> (<<"a">> :> << <<"a">>, <<"b">> >>) @@ (<<"c">> :> << <<"c">> >>),
   pair_to_names   |-> (<<"a", "_", "b">> :>
                          << <<"a", " ", "b", " ", "c">>, <<"a", " ", "b", " ", "d">>,
                             <<"a", " ", "b", " ", "d", " ", "e">> >>)]

\* names with a repeated word
InputRepeat ==
  [all_names       |-> << <<"a", " ", "a", " ", "c", " ", "c">>,
                          <<"a", " ", "a", " ", "d", " ", "d">> >>,
   word_to_matches |-> (<<"a">> :> << <<"a">> >>),
   pair_to_names   |-> (<<"a", "_", "a">> :>
                          << <<"a", " ", "a", " ", "c", " ", "c">>,
                             <<"a", " ", "a", " ", "d", " ", "d">> >>)]

\* two four-word names that agree on two words
InputFour ==
  [all_names       |-> << <<"a", " ", "b", " ", "c", " ", "d">>,
                          <<"a", " ", "b", " ", "e", " ", "f">> >>,
   word_to_matches |-> (<<"a">> :> << <<"a">>, <<"b">> >>),
   pair_to_names   |-> (<<"a", "_", "b">> :>
                          << <<"a", " ", "b", " ", "c", " ", "d">>,
                             <<"a", " ", "b", " ", "e", " ", "f">> >>)]

\* a one-word name, and a bucket entry that is not in all_names
InputShort ==
  [all_names       |-> << <<"a">>, <<"a", " ", "a">> >>,
   word_to_matches |-> (<<"a">> :> << <<"a">> >>),
   pair_to_names   |-> (<<"a", "_", "a">> :>
                          << <<"a">>, <<"a", " ", "a">>, <<"b", " ", "b">> >>)]

\* a nickname (multi-character words ab, ac) entered in one direction only,
\* and an initial d with an equivalent e
InputNick ==
  [all_names       |-> << <<"a", "b", " ", "d">>, <<"a", "c", " ", "d">>,
                          <<"d", " ", "a", "b">> >>,
   word_to_matches |-> (<<"a", "b">> :> << <<"a", "b">> >>) @@
                       (<<"a", "c">> :> << <<"a", "c">>, <<"a", "b">> >>) @@
                       (<<"d">> :> << <<"d">>, <<"e">> >>),
   pair_to_names   |-> (<<"a", "b", "_", "d">> :>
                          << <<"a", "b", " ", "d">>, <<"d", " ", "a", "b">> >>) @@
                       (<<"a", "c", "_", "d">> :> << <<"a", "c", " ", "d">> >>)]

Inputs == {InputMutual, InputThree, InputRepeat, InputFour, InputShort, InputNick}

\* the orders in which `range raw.WordToMatches` can deliver the keys
KeyOrders(raw) ==
  LET keys == DOMAIN raw.word_to_matches
  IN  {o \in [1..Cardinality(keys) -> keys] : Range(o) = keys}

-----------------------------------------------------------------------------
(* Worker pool *)

Workers == 1..numWorkers

\* data.NameWords[n]: a missing key reads as the nil slice
IdsOf(nameWords, n) == IF n \in DOMAIN nameWords THEN nameWords[n] ELSE <<>>

\* the two inner loops flattened: for every generated key that is in the
\* index, the names of its bucket, in order
RECURSIVE Candidates(_, _)
Candidates(keys, pairToNames) ==
  IF keys = <<>> THEN <<>>
  ELSE (IF Head(keys) \in DOMAIN pairToNames
        THEN pairToNames[Head(keys)] ELSE <<>>)
       \o Candidates(Tail(keys), pairToNames)

\* the generation advanced by one only
NextGenByOne(g) == g + 1

\* currentGen += 2
NextGen(g) == g + 2

\* the counter left as it was
AddUint64Lost(counter, delta) == counter

\* atomic.AddUint64(&namesProcessed, 1), far from the 64-bit wrap
AddUint64(counter, delta) == counter + delta

\* fmt.Sprintf("(\"%s\", \"%s\")", n1, n2)
FormatMatch(n1, n2) ==
  <<"(", "\"">> \o n1 \o <<"\"", ",", " ", "\"">> \o n2 \o <<"\"", ")">>

\* the line written without consulting seenMatches
NotSeenUnchecked(matchStr, seen) == TRUE

\* if _, seen := seenMatches[matchStr]; !seen
NotSeen(matchStr, seen) == matchStr \notin seen

\* the self test missing
IsSelfNever(other, name) == FALSE

\* if other == name { continue }
IsSelf(other, name) == other = name

\* writer.Buffered(): every line is followed by a newline
RECURSIVE Buffered(_)
Buffered(lines) ==
  IF lines = <<>> THEN 0 ELSE Len(Head(lines)) + 1 + Buffered(Tail(lines))

\* no call made yet
NoCall ==
  [called |-> FALSE, ok |-> FALSE, partsA |-> <<>>, partsB |-> <<>>,
   lenA |-> 0, lenB |-> 0, mismatchesA |-> 0, mismatchesB |-> 0, gen |-> 0,
   before |-> <<>>, buf1 |-> <<>>, buf2 |-> <<>>]

\* the locals of a call, and the buffer as it was when the call began
\* (before), when A was checked (buf1) and when B was checked (buf2)
CallLocals(r) ==
  [called |-> TRUE, ok |-> r.ok, partsA |-> r.partsA, partsB |-> r.partsB,
   lenA |-> r.lenA, lenB |-> r.lenB,
   mismatchesA |-> r.mismatchesA, mismatchesB |-> r.mismatchesB, gen |-> r.gen,
   before |-> r.before, buf1 |-> r.buf1, buf2 |-> r.buf]

ZeroBuffer(dictSize) == [x \in 0..(dictSize - 1) |-> 0]

\* the document before loadData has run
NoDocument == [all_names |-> <<>>, word_to_matches |-> <<>>, pair_to_names |-> <<>>]

\* one line of standard output: its format and its arguments
Printed(format, args) == [format |-> format, args |-> args]

UsageLine == Printed("Usage: ./pair_comparator <input.json> <output.txt>", <<>>)

\* the process is started with len(os.Args) = n: nothing is loaded, no
\* goroutine runs
Init ==
  \E n \in ArgCounts :
    /\ osArgs = n
    /\ stdout = <<>>
    /\ exitCode = -1
    /\ inputDoc = NoDocument
    /\ allNamesList = <<>>
    /\ numWorkers = 0
    /\ NameWords = <<>>
    /\ WordToMatches = <<>>
    /\ TradeoutSets = <<>>
    /\ PairToNames = <<>>
    /\ Dict = NewDictionary
    /\ jobs = <<>>
    /\ jobsClosed = FALSE
    /\ sent = 0
    /\ mainPc = "start"
    /\ monPc = "off"
    /\ lastProgress = 0
    /\ namesProcessed = 0
    /\ wpc = <<>>
    /\ dequeued = <<>>
    /\ curJob = <<>>
    /\ pairs = <<>>
    /\ cands = <<>>
    /\ matchesBuffer = <<>>
    /\ currentGen = <<>>
    /\ seenMatches = <<>>
    /\ writerBuf = <<>>
    /\ tempFile = <<>>
    /\ emitted = <<>>
    /\ lastCall = <<>>
    /\ output = <<>>

\* if len(os.Args) < 3: the usage line is printed and main returns
MainUsage ==
  /\ mainPc = "start"
  /\ osArgs < MinArgs
  /\ stdout' = Append(stdout, UsageLine)
  /\ mainPc' = "usage"
  /\ exitCode' = 0
  /\ UNCHANGED <<setup, tables, jobs, jobsClosed, sent, monPc, lastProgress,
                 namesProcessed, wpc, dequeued, curJob, pairs, cands,
                 matchesBuffer, currentGen, seenMatches, writerBuf, tempFile,
                 emitted, lastCall, output>>

\* loadData, preprocessData, the channel, the monitor goroutine and the
\* worker goroutines, each with the locals processBatch sets up
MainLoad ==
  /\ mainPc = "start"
  /\ osArgs >= MinArgs
  /\ \E raw \in Inputs : \E order \in KeyOrders(raw) : \E n \in 1..MaxWorkers :
       LET data == preprocessData(raw, order)
       IN  /\ inputDoc' = raw
           /\ allNamesList' = raw.all_names
           /\ numWorkers' = n
           /\ NameWords' = data.NameWords
           /\ WordToMatches' = data.WordToMatches
           /\ TradeoutSets' = data.TradeoutSets
           /\ PairToNames' = data.PairToNames
           /\ Dict' = data.Dict
           /\ stdout' = stdout \o
                  <<Printed("Loading JSON data...", <<>>),
                    Printed("Interning strings to integers...", <<>>),
                    Printed("Processing %d names with %d workers...",
                            <<Len(raw.all_names), n>>)>>
           /\ wpc' = [w \in 1..n |-> "recv"]
           /\ dequeued' = [w \in 1..n |-> <<>>]
           /\ curJob' = [w \in 1..n |-> 0]
           /\ pairs' = [w \in 1..n |-> <<>>]
           /\ cands' = [w \in 1..n |-> <<>>]
           /\ matchesBuffer' = [w \in 1..n |-> ZeroBuffer(Len(data.Dict))]
           /\ currentGen' = [w \in 1..n |-> GenStart]
           /\ seenMatches' = [w \in 1..n |-> {}]
           /\ writerBuf' = [w \in 1..n |-> <<>>]
           /\ tempFile' = [w \in 1..n |-> <<>>]
           /\ emitted' = [w \in 1..n |-> <<>>]
           /\ lastCall' = [w \in 1..n |-> NoCall]
  /\ mainPc' = "produce"
  /\ monPc' = "run"
  /\ UNCHANGED <<osArgs, exitCode, jobs, jobsClosed, sent, lastProgress,
                 namesProcessed, output>>

\* for name := range jobs; atomic.AddUint64; the length test; the clearing
\* of seenMatches; buildExpandedPairMappings
WorkerRecv(w) ==
  /\ wpc[w] = "recv"
  /\ jobs # <<>>
  /\ \E job \in {Head(jobs)} :
     \E ids \in {IdsOf(NameWords, allNamesList[job])} :
         /\ jobs' = Tail(jobs)
         /\ namesProcessed' = AddUint64(namesProcessed, 1)
         /\ dequeued' = [dequeued EXCEPT ![w] = Append(@, job)]
         /\ IF Len(ids) < 2
            THEN UNCHANGED <<wpc, curJob, pairs, cands, seenMatches,
                             TradeoutSets, WordToMatches>>
            ELSE \E built \in {buildExpandedPairMappings(ids, TradeoutSets, Dict)} :
                 \E after \in {BuilderEffect(ids, TradeoutSets)} :
                 /\ wpc' = [wpc EXCEPT ![w] = "cand"]
                 /\ curJob' = [curJob EXCEPT ![w] = job]
                 /\ seenMatches' = [seenMatches EXCEPT ![w] = {}]
                 /\ pairs' = [pairs EXCEPT ![w] = built]
                 /\ cands' = [cands EXCEPT ![w] = Candidates(built, PairToNames)]
                 /\ TradeoutSets' = after
                 /\ WordToMatches' = SharedSlices(WordToMatches, after, Dict)
  /\ UNCHANGED <<setup, NameWords, PairToNames, Dict, stdout, exitCode,
                 jobsClosed, sent, mainPc, monPc, lastProgress, matchesBuffer,
                 currentGen, writerBuf, tempFile, emitted, lastCall, output>>

\* one iteration of `for _, other := range otherNames`
WorkerCandidate(w) ==
  /\ wpc[w] = "cand"
  /\ cands[w] # <<>>
  /\ \E name \in {allNamesList[curJob[w]]} :
     \E other \in {Head(cands[w])} :
     \E swap \in {StrLess(other, name)} :
     \E n1 \in {IF swap THEN other ELSE name} :
     \E n2 \in {IF swap THEN name ELSE other} :
     \E gen \in {NextGen(currentGen[w])} :
     \E line \in {FormatMatch(n1, n2)} :
         /\ cands' = [cands EXCEPT ![w] = Tail(cands[w])]
         /\ IF IsSelf(other, name)
            THEN UNCHANGED <<currentGen, matchesBuffer, lastCall, seenMatches,
                             writerBuf, emitted>>
            ELSE \E ids1 \in {IdsOf(NameWords, n1)} :
                 \E ids2 \in {IdsOf(NameWords, n2)} :
                 \E r \in {validateOptimized(ids1, ids2, WordToMatches,
                                              matchesBuffer[w], gen)} :
                 /\ currentGen' = [currentGen EXCEPT ![w] = gen]
                 /\ matchesBuffer' = [matchesBuffer EXCEPT ![w] = r.buf]
                 /\ lastCall' = [lastCall EXCEPT ![w] = CallLocals(r)]
                 /\ IF r.ok /\ NotSeen(line, seenMatches[w])
                    THEN /\ seenMatches' = [seenMatches EXCEPT ![w] = @ \cup {line}]
                         /\ writerBuf' = [writerBuf EXCEPT ![w] = Append(@, line)]
                         /\ emitted' = [emitted EXCEPT ![w] =
                                          Append(@, <<curJob[w], n1, n2>>)]
                    ELSE UNCHANGED <<seenMatches, writerBuf, emitted>>
  /\ UNCHANGED <<setup, tables, stdout, exitCode, dequeued, pairs, jobs,
                 jobsClosed, sent, mainPc, monPc, lastProgress, namesProcessed,
                 wpc, curJob, tempFile, output>>

\* the end of the loop body: if writer.Buffered() > 4096 { writer.Flush() }
WorkerEndName(w) ==
  /\ wpc[w] = "cand"
  /\ cands[w] = <<>>
  /\ wpc' = [wpc EXCEPT ![w] = "recv"]
  /\ IF Buffered(writerBuf[w]) > FlushLimit
     THEN /\ tempFile' = [tempFile EXCEPT ![w] = @ \o writerBuf[w]]
          /\ writerBuf' = [writerBuf EXCEPT ![w] = <<>>]
     ELSE UNCHANGED <<tempFile, writerBuf>>
  /\ UNCHANGED <<setup, tables, stdout, exitCode, dequeued, pairs, jobs,
                 jobsClosed, sent, mainPc, monPc, lastProgress, namesProcessed,
                 curJob, cands, matchesBuffer, currentGen, seenMatches,
                 emitted, lastCall, output>>

\* the range loop ends on the closed, drained channel: the final Flush,
\* the deferred Close and wg.Done
WorkerExit(w) ==
  /\ wpc[w] = "recv"
  /\ jobs = <<>>
  /\ jobsClosed
  /\ wpc' = [wpc EXCEPT ![w] = "done"]
  /\ tempFile' = [tempFile EXCEPT ![w] = @ \o writerBuf[w]]
  /\ writerBuf' = [writerBuf EXCEPT ![w] = <<>>]
  /\ UNCHANGED <<setup, tables, stdout, exitCode, dequeued, pairs, jobs,
                 jobsClosed, sent, mainPc, monPc, lastProgress, namesProcessed,
                 curJob, cands, matchesBuffer, currentGen, seenMatches,
                 emitted, lastCall, output>>

-----------------------------------------------------------------------------
(* Driver and progress monitor *)

\* jobs <- name
MainSend ==
  /\ mainPc = "produce"
  /\ sent < Len(allNamesList)
  /\ Len(jobs) < JobsCap
  /\ jobs' = Append(jobs, sent + 1)
  /\ sent' = sent + 1
  /\ UNCHANGED <<setup, tables, stdout, exitCode, dequeued, pairs, jobsClosed,
                 mainPc, monPc, lastProgress, namesProcessed, wpc, curJob,
                 cands, matchesBuffer, currentGen, seenMatches, writerBuf,
                 tempFile, emitted, lastCall, output>>

\* the range loop left without closing the channel
MainCloseForgotten ==
  /\ mainPc = "produce"
  /\ sent = Len(allNamesList)
  /\ mainPc' = "wait"
  /\ UNCHANGED <<setup, tables, stdout, exitCode, dequeued, pairs, jobs,
                 jobsClosed, sent, monPc, lastProgress, namesProcessed, wpc,
                 curJob, cands, matchesBuffer, currentGen, seenMatches,
                 writerBuf, tempFile, emitted, lastCall, output>>

\* close(jobs)
MainClose ==
  /\ mainPc = "produce"
  /\ sent = Len(allNamesList)
  /\ jobsClosed' = TRUE
  /\ mainPc' = "wait"
  /\ UNCHANGED <<setup, tables, stdout, exitCode, dequeued, pairs, jobs, sent,
                 monPc, lastProgress, namesProcessed, wpc, curJob, cands,
                 matchesBuffer, currentGen, seenMatches, writerBuf, tempFile,
                 emitted, lastCall, output>>

\* wg.Wait()
MainWait ==
  /\ mainPc = "wait"
  /\ \A w \in Workers : wpc[w] = "done"
  /\ mainPc' = "signal"
  /\ UNCHANGED <<setup, tables, stdout, exitCode, dequeued, pairs, jobs,
                 jobsClosed, sent, monPc, lastProgress, namesProcessed, wpc,
                 curJob, cands, matchesBuffer, currentGen, seenMatches,
                 writerBuf, tempFile, emitted, lastCall, output>>

\* doneMonitor <- true, received by the monitor's select; the final
\* progress line
MainSignal ==
  /\ mainPc = "signal"
  /\ monPc = "run"
  /\ monPc' = "done"
  /\ mainPc' = "merge"
  /\ stdout' = Append(stdout, Printed("\\rProgress: %d / %d (100.00%%)",
                                      <<Len(allNamesList), Len(allNamesList)>>))
  /\ UNCHANGED <<setup, tables, exitCode, dequeued, pairs, jobs, jobsClosed,
                 sent, lastProgress, namesProcessed, wpc, curJob, cands,
                 matchesBuffer, currentGen, seenMatches, writerBuf, tempFile,
                 emitted, lastCall, output>>

\* the files of the temp directory, in os.ReadDir order, copied to the output
RECURSIVE mergeFiles(_, _)
mergeFiles(files, n) ==
  IF n = 0 THEN <<>> ELSE mergeFiles(files, n - 1) \o files[n]

\* mergeFiles, "Done.", and main returns
MainMerge ==
  /\ mainPc = "merge"
  /\ output' = mergeFiles(tempFile, numWorkers)
  /\ mainPc' = "done"
  /\ stdout' = stdout \o <<Printed("Merging results...", <<>>),
                           Printed("Done.", <<>>)>>
  /\ exitCode' = 0
  /\ UNCHANGED <<setup, tables, dequeued, pairs, jobs, jobsClosed, sent, monPc,
                 lastProgress, namesProcessed, wpc, curJob, cands,
                 matchesBuffer, currentGen, seenMatches, writerBuf, tempFile,
                 emitted, lastCall>>

\* case <-ticker.C: the monitor reads the counter and prints it
MonitorTick ==
  /\ monPc = "run"
  /\ lastProgress' = namesProcessed
  /\ UNCHANGED <<setup, tables, stdout, exitCode, dequeued, pairs, jobs,
                 jobsClosed, sent, mainPc, monPc, namesProcessed, wpc, curJob,
                 cands, matchesBuffer, currentGen, seenMatches, writerBuf,
                 tempFile, emitted, lastCall, output>>

Next ==
  \/ MainUsage
  \/ MainLoad
  \/ \E w \in Workers : WorkerRecv(w)
  \/ \E w \in Workers : WorkerCandidate(w)
  \/ \E w \in Workers : WorkerEndName(w)
  \/ \E w \in Workers : WorkerExit(w)
  \/ MainSend
  \/ MainClose
  \/ MainWait
  \/ MainSignal
  \/ MainMerge
  \/ MonitorTick

Spec == Init /\ [][Next]_vars

\* the steps of the main goroutine
MainStep ==
  \/ MainUsage
  \/ MainLoad
  \/ MainSend
  \/ MainClose
  \/ MainWait
  \/ MainSignal
  \/ MainMerge

\* the steps of worker goroutine w
WorkerStep(w) ==
  /\ w \in Workers
  /\ \/ WorkerRecv(w)
     \/ WorkerCandidate(w)
     \/ WorkerEndName(w)
     \/ WorkerExit(w)

\* the Go scheduler runs every goroutine that can take a step; the
\* monitor's select takes the doneMonitor case once main offers it, the
\* ticker being ready at most once a second
FairSpec ==
  /\ Spec
  /\ WF_vars(MainStep)
  /\ \A w \in 1..MaxWorkers : WF_vars(WorkerStep(w))

-----------------------------------------------------------------------------
(* The validator on its own: one worker's buffer and generation counter,   *)
(* called on arbitrary token vectors under an arbitrary table              *)

VDict == << <<"a">>, <<"b">> >>

VIds == 0..(Len(VDict) - 1)

\* every table over VIds: a word has no entry, or a list of matches
VTables ==
  UNION {[S -> {SortUnique(T) : T \in SUBSET VIds}] : S \in SUBSET VIds}

\* every token vector of at most MaxLen words
Vecs == UNION {[1..n -> VIds] : n \in 0..MaxLen}

InitV ==
  \E t \in VTables :
    /\ osArgs = MinArgs
    /\ stdout = <<>>
    /\ exitCode = -1
    /\ inputDoc = NoDocument
    /\ allNamesList = <<>>
    /\ numWorkers = 1
    /\ NameWords = <<>>
    /\ WordToMatches = t
    /\ TradeoutSets = <<>>
    /\ PairToNames = <<>>
    /\ Dict = VDict
    /\ jobs = <<>>
    /\ jobsClosed = FALSE
    /\ sent = 0
    /\ mainPc = "produce"
    /\ monPc = "run"
    /\ lastProgress = 0
    /\ namesProcessed = 0
    /\ wpc = [w \in {1} |-> "idle"]
    /\ dequeued = [w \in {1} |-> <<>>]
    /\ curJob = [w \in {1} |-> 0]
    /\ pairs = [w \in {1} |-> <<>>]
    /\ cands = [w \in {1} |-> <<>>]
    /\ matchesBuffer = [w \in {1} |-> ZeroBuffer(Len(VDict))]
    /\ currentGen = [w \in {1} |-> GenStart]
    /\ seenMatches = [w \in {1} |-> {}]
    /\ writerBuf = [w \in {1} |-> <<>>]
    /\ tempFile = [w \in {1} |-> <<>>]
    /\ emitted = [w \in {1} |-> <<>>]
    /\ lastCall = [w \in {1} |-> NoCall]
    /\ output = <<>>

\* currentGen += 2; validateOptimized(ids1, ids2, ...)
ValidatorCall ==
  /\ wpc[1] = "idle"
  /\ currentGen[1] < GenStart + 2 * MaxCalls
  /\ \E partsA \in Vecs : \E partsB \in Vecs :
     \E gen \in {NextGen(currentGen[1])} :
     \E r \in {validateOptimized(partsA, partsB, WordToMatches,
                                  matchesBuffer[1], gen)} :
         /\ currentGen' = [currentGen EXCEPT ![1] = gen]
         /\ matchesBuffer' = [matchesBuffer EXCEPT ![1] = r.buf]
         /\ lastCall' = [lastCall EXCEPT ![1] = CallLocals(r)]
         /\ wpc' = [wpc EXCEPT ![1] = "called"]
  /\ UNCHANGED <<setup, tables, stdout, exitCode, dequeued, pairs, jobs,
                 jobsClosed, sent, mainPc, monPc, lastProgress, namesProcessed,
                 curJob, cands, seenMatches, writerBuf, tempFile, emitted,
                 output>>

\* the call returns: its locals are gone, the buffer and the counter stay
ValidatorReturn ==
  /\ wpc[1] = "called"
  /\ wpc' = [wpc EXCEPT ![1] = "idle"]
  /\ lastCall' = [lastCall EXCEPT ![1] = NoCall]
  /\ UNCHANGED <<setup, tables, stdout, exitCode, dequeued, pairs, jobs,
                 jobsClosed, sent, mainPc, monPc, lastProgress, namesProcessed,
                 curJob, cands, matchesBuffer, currentGen, seenMatches,
                 writerBuf, tempFile, emitted, output>>

NextV ==
  \/ ValidatorCall
  \/ ValidatorReturn

SpecV == InitV /\ [][NextV]_vars

-----------------------------------------------------------------------------
(* The validator on the names of the README, under a table that lists      *)
(* every word as its own match and the nicknames both ways                 *)

ScenarioWords ==
  [john     |-> <<"j", "o", "h", "n">>,
   c        |-> <<"c">>,
   w        |-> <<"w">>,
   weymouth |-> <<"w", "e", "y", "m", "o", "u", "t", "h">>,
   charles  |-> <<"c", "h", "a", "r", "l", "e", "s">>,
   charlie  |-> <<"c", "h", "a", "r", "l", "i", "e">>,
   bobby    |-> <<"b", "o", "b", "b", "y">>,
   bob      |-> <<"b", "o", "b">>,
   robert   |-> <<"r", "o", "b", "e", "r", "t">>,
   william  |-> <<"w", "i", "l", "l", "i", "a", "m">>,
   bill     |-> <<"b", "i", "l", "l">>,
   james    |-> <<"j", "a", "m", "e", "s">>,
   jean     |-> <<"j", "e", "a", "n">>,
   jeanette |-> <<"j", "e", "a", "n", "e", "t", "t", "e">>]

\* the words of a name separated by single spaces
RECURSIVE Spaced(_)
Spaced(ws) ==
  IF Len(ws) = 1 THEN ws[1] ELSE ws[1] \o <<" ">> \o Spaced(Tail(ws))

ScenarioNames ==
  LET W == ScenarioWords
  IN  [johnCWeymouth    |-> Spaced(<<W.john, W.c, W.weymouth>>),
       charlesWeymouth  |-> Spaced(<<W.charles, W.weymouth>>),
       bobbyWeymouth    |-> Spaced(<<W.bobby, W.weymouth>>),
       robertW          |-> Spaced(<<W.robert, W.w>>),
       charlieWeymouth  |-> Spaced(<<W.charlie, W.weymouth>>),
       charlieJamesCWeymouth |-> Spaced(<<W.charlie, W.james, W.c, W.weymouth>>),
       charlieJames     |-> Spaced(<<W.charlie, W.james>>),
       charlieCW        |-> Spaced(<<W.charlie, W.c, W.w>>),
       weymouthJean     |-> Spaced(<<W.weymouth, W.jean>>),
       weymouthJeanette |-> Spaced(<<W.weymouth, W.jeanette>>)]

\* the nickname groups; every other word stands alone
ScenarioGroups ==
  LET W == ScenarioWords
  IN  {<<W.william, W.bill>>, <<W.robert, W.bob, W.bobby>>,
       <<W.charles, W.charlie>>}

InputScenario ==
  LET words == {ScenarioWords[f] : f \in DOMAIN ScenarioWords}
      groupOf(t) == IF \E g \in ScenarioGroups : t \in Range(g)
                    THEN CHOOSE g \in ScenarioGroups : t \in Range(g)
                    ELSE <<t>>
  IN  [all_names       |-> SortStrings({ScenarioNames[f] : f \in DOMAIN ScenarioNames}),
       word_to_matches |-> [t \in words |->
                              <<t>> \o SortStrings(Range(groupOf(t)) \ {t})],
       pair_to_names   |-> <<>>]

\* the pairs of names handed to the validator, in the order of the table
ScenarioPairs ==
  LET N == ScenarioNames
  IN  {<<N.johnCWeymouth, N.charlesWeymouth>>,
       <<N.bobbyWeymouth, N.robertW>>,
       <<N.charlesWeymouth, N.charlieWeymouth>>,
       <<N.charlieJamesCWeymouth, N.charlieJames>>,
       <<N.charlieCW, N.charlieJames>>,
       <<N.weymouthJean, N.weymouthJeanette>>}

\* two of the orders in which the keys of word_to_matches can be interned
ScenarioOrders ==
  LET sorted == SortStrings(DOMAIN InputScenario.word_to_matches)
  IN  {sorted, Reverse(sorted)}

InitS ==
  \E order \in ScenarioOrders :
    LET data == preprocessData(InputScenario, order)
    IN  /\ osArgs = MinArgs
        /\ stdout = <<>>
        /\ exitCode = -1
        /\ inputDoc = InputScenario
        /\ allNamesList = InputScenario.all_names
        /\ numWorkers = 1
        /\ NameWords = data.NameWords
        /\ WordToMatches = data.WordToMatches
        /\ TradeoutSets = data.TradeoutSets
        /\ PairToNames = data.PairToNames
        /\ Dict = data.Dict
        /\ jobs = <<>>
        /\ jobsClosed = FALSE
        /\ sent = 0
        /\ mainPc = "produce"
        /\ monPc = "run"
        /\ lastProgress = 0
        /\ namesProcessed = 0
        /\ wpc = [w \in {1} |-> "idle"]
        /\ dequeued = [w \in {1} |-> <<>>]
        /\ curJob = [w \in {1} |-> 0]
        /\ pairs = [w \in {1} |-> <<>>]
        /\ cands = [w \in {1} |-> <<>>]
        /\ matchesBuffer = [w \in {1} |-> ZeroBuffer(Len(data.Dict))]
        /\ currentGen = [w \in {1} |-> GenStart]
        /\ seenMatches = [w \in {1} |-> {}]
        /\ writerBuf = [w \in {1} |-> <<>>]
        /\ tempFile = [w \in {1} |-> <<>>]
        /\ emitted = [w \in {1} |-> <<>>]
        /\ lastCall = [w \in {1} |-> NoCall]
        /\ output = <<>>

\* currentGen += 2; validateOptimized on the id vectors of a scenario's two
\* names, in either argument order
ScenarioCall ==
  /\ wpc[1] = "idle"
  /\ currentGen[1] < GenStart + 2 * MaxCalls
  /\ \E p \in ScenarioPairs : \E swap \in BOOLEAN :
     \E gen \in {NextGen(currentGen[1])} :
     \E r \in {validateOptimized(
                  IdsOf(NameWords, IF swap THEN p[2] ELSE p[1]),
                  IdsOf(NameWords, IF swap THEN p[1] ELSE p[2]),
                  WordToMatches, matchesBuffer[1], gen)} :
         /\ currentGen' = [currentGen EXCEPT ![1] = gen]
         /\ matchesBuffer' = [matchesBuffer EXCEPT ![1] = r.buf]
         /\ lastCall' = [lastCall EXCEPT ![1] = CallLocals(r)]
         /\ wpc' = [wpc EXCEPT ![1] = "called"]
  /\ UNCHANGED <<setup, tables, stdout, exitCode, dequeued, pairs, jobs,
                 jobsClosed, sent, mainPc, monPc, lastProgress,
                 namesProcessed, curJob, cands, seenMatches, writerBuf,
                 tempFile, emitted, output>>

NextS ==
  \/ ScenarioCall
  \/ ValidatorReturn

SpecS == InitS /\ [][NextS]_vars

-----------------------------------------------------------------------------
(* The builder on its own: called on an arbitrary token vector under an    *)
(* arbitrary tradeout table, with a dictionary whose id order is not the   *)
(* order of its strings                                                    *)

\* words of more than one character: only these have replacements other
\* than themselves
BDict == << <<"b", "o">>, <<"a", "l">>, <<"c", "y">> >>

BIds == 0..(Len(BDict) - 1)

\* every table over BIds: a word has no entry, or a list of replacements
BTables ==
  UNION {[S -> {SortUnique(T) : T \in SUBSET BIds}] : S \in SUBSET BIds}

\* every token vector of two to MaxLen words
BVecs == UNION {[1..n -> BIds] : n \in 2..MaxLen}

\* the name whose words have the ids `parts`
NameOf(parts) == Spaced([i \in 1..Len(parts) |-> GetStr(BDict, parts[i])])

InitB ==
  \E t \in BTables : \E parts \in BVecs :
    /\ osArgs = MinArgs
    /\ stdout = <<>>
    /\ exitCode = -1
    /\ inputDoc = NoDocument
    /\ allNamesList = <<NameOf(parts)>>
    /\ numWorkers = 1
    /\ NameWords = [n \in {NameOf(parts)} |-> parts]
    /\ WordToMatches = t
    /\ TradeoutSets = t
    /\ PairToNames = <<>>
    /\ Dict = BDict
    /\ jobs = <<>>
    /\ jobsClosed = FALSE
    /\ sent = 0
    /\ mainPc = "produce"
    /\ monPc = "run"
    /\ lastProgress = 0
    /\ namesProcessed = 0
    /\ wpc = [w \in {1} |-> "idle"]
    /\ dequeued = [w \in {1} |-> <<>>]
    /\ curJob = [w \in {1} |-> 0]
    /\ pairs = [w \in {1} |-> <<>>]
    /\ cands = [w \in {1} |-> <<>>]
    /\ matchesBuffer = [w \in {1} |-> ZeroBuffer(Len(BDict))]
    /\ currentGen = [w \in {1} |-> GenStart]
    /\ seenMatches = [w \in {1} |-> {}]
    /\ writerBuf = [w \in {1} |-> <<>>]
    /\ tempFile = [w \in {1} |-> <<>>]
    /\ emitted = [w \in {1} |-> <<>>]
    /\ lastCall = [w \in {1} |-> NoCall]
    /\ output = <<>>

\* pairs := buildExpandedPairMappings(ids, data.TradeoutSets, data.Dict)
BuilderCall ==
  /\ wpc[1] = "idle"
  /\ \E ids \in {IdsOf(NameWords, allNamesList[1])} :
     \E built \in {buildExpandedPairMappings(ids, TradeoutSets, Dict)} :
     \E after \in {BuilderEffect(ids, TradeoutSets)} :
         /\ curJob' = [curJob EXCEPT ![1] = 1]
         /\ pairs' = [pairs EXCEPT ![1] = built]
         /\ TradeoutSets' = after
         /\ WordToMatches' = SharedSlices(WordToMatches, after, Dict)
         /\ wpc' = [wpc EXCEPT ![1] = "called"]
  /\ UNCHANGED <<setup, NameWords, PairToNames, Dict, stdout, exitCode,
                 dequeued, jobs, jobsClosed, sent, mainPc, monPc,
                 lastProgress, namesProcessed, cands, matchesBuffer,
                 currentGen, seenMatches, writerBuf, tempFile, emitted,
                 lastCall, output>>

\* the keys have been used; the next name's call starts afresh
BuilderReturn ==
  /\ wpc[1] = "called"
  /\ curJob[1] # 0
  /\ wpc' = [wpc EXCEPT ![1] = "idle"]
  /\ curJob' = [curJob EXCEPT ![1] = 0]
  /\ pairs' = [pairs EXCEPT ![1] = <<>>]
  /\ UNCHANGED <<setup, tables, stdout, exitCode, dequeued, jobs, jobsClosed,
                 sent, mainPc, monPc, lastProgress, namesProcessed, cands,
                 matchesBuffer, currentGen, seenMatches, writerBuf, tempFile,
                 emitted, lastCall, output>>

NextB ==
  \/ BuilderCall
  \/ BuilderReturn

SpecB == InitB /\ [][NextB]_vars

-----------------------------------------------------------------------------
(* Properties *)

\* the lines a worker has written to its sink so far
Written(w) == tempFile[w] \o writerBuf[w]

\* the JSON document the tables were built from
RawInput ==
  [all_names       |-> allNamesList,
   word_to_matches |-> [k \in {GetStr(Dict, id) : id \in DOMAIN WordToMatches} |->
                          [i \in 1..Len(WordToMatches[IdOf(Dict, k)]) |->
                             GetStr(Dict, WordToMatches[IdOf(Dict, k)][i])]],
   pair_to_names   |-> PairToNames]

\* the pairs a scheduling-free run over `raw` accepts: keys interned in
\* sorted order, every candidate validated on a fresh buffer
ReferencePairs(raw) ==
  LET data == preprocessData(raw, SortStrings(DOMAIN raw.word_to_matches))
      cs(name) == Range(Candidates(
                    buildExpandedPairMappings(IdsOf(data.NameWords, name),
                                              data.TradeoutSets, data.Dict),
                    data.PairToNames))
      lo(x, y) == IF StrLess(y, x) THEN y ELSE x
      hi(x, y) == IF StrLess(y, x) THEN x ELSE y
  IN  UNION {
        {<<lo(name, other), hi(name, other)>> : other \in
           {o \in cs(name) :
              /\ o # name
              /\ validateOptimized(IdsOf(data.NameWords, lo(name, o)),
                                   IdsOf(data.NameWords, hi(name, o)),
                                   data.WordToMatches,
                                   ZeroBuffer(Len(data.Dict)), GenStart + 2).ok}}
        : name \in {n \in Range(raw.all_names) :
                      Len(IdsOf(data.NameWords, n)) >= 2}}

ReferenceLines(raw) == {FormatMatch(p[1], p[2]) : p \in ReferencePairs(raw)}

\* C1 as stated: a worker's output holds no line twice, so the final
\* output holds a line at most numWorkers times.
C1_OncePerWorker ==
  \A w \in Workers : \A i \in 1..Len(Written(w)) : \A j \in 1..Len(Written(w)) :
    Written(w)[i] = Written(w)[j] => i = j

\* C1 amended: among the lines a worker writes while it processes one
\* dequeued name no pair occurs twice, and every line written is the pair
\* of that name with another name; a worker's output holds a pair once per
\* dequeued occurrence of either member at most.
C1_OncePerDequeuedName ==
  \A w \in Workers :
    /\ Len(emitted[w]) = Len(Written(w))
    /\ \A i \in 1..Len(emitted[w]) :
         /\ Written(w)[i] = FormatMatch(emitted[w][i][2], emitted[w][i][3])
         /\ allNamesList[emitted[w][i][1]] \in {emitted[w][i][2], emitted[w][i][3]}
         /\ \A j \in 1..Len(emitted[w]) :
              (emitted[w][i] = emitted[w][j]) => i = j

\* a worker met the same other name twice for one dequeued name, and has
\* written the same pair for two dequeued names
C1_Witness ==
  \E w \in Workers :
    /\ \E i \in 1..Len(emitted[w]) : \E j \in 1..Len(emitted[w]) :
         /\ emitted[w][i][1] # emitted[w][j][1]
         /\ Written(w)[i] = Written(w)[j]
    /\ wpc[w] = "cand"
    /\ cands[w] # <<>>
    /\ FormatMatch(allNamesList[curJob[w]], Head(cands[w])) \in seenMatches[w]

\* C2: once the output file is merged, the set of its lines is the set the
\* input alone determines, whatever the number of workers, the assignment
\* of names to workers, the interleaving and the interning order.
C2_OutputSetDeterministic ==
  mainPc = "done" => Range(output) = ReferenceLines(RawInput)

\* a finished run in which two workers both wrote lines
C2_Witness ==
  /\ mainPc = "done"
  /\ numWorkers = 2
  /\ \A w \in Workers : tempFile[w] # <<>>
  /\ Range(output) = ReferenceLines(RawInput)

\* C3: every line written is the pair (n1, n2) of two names with n1
\* strictly below n2 in byte order.
C3_CanonicalOrder ==
  \A w \in Workers :
    /\ Len(emitted[w]) = Len(Written(w))
    /\ \A i \in 1..Len(emitted[w]) :
         /\ Written(w)[i] = FormatMatch(emitted[w][i][2], emitted[w][i][3])
         /\ StrLess(emitted[w][i][2], emitted[w][i][3])

\* a line was written for a name that is listed twice in all_names and
\* stands in the bucket it was looked up in
C3_Witness ==
  \E w \in Workers : \E i \in 1..Len(emitted[w]) :
    LET name == allNamesList[emitted[w][i][1]]
    IN  /\ Cardinality({k \in 1..Len(allNamesList) : allNamesList[k] = name}) > 1
        /\ \E key \in DOMAIN PairToNames : name \in Range(PairToNames[key])
        /\ emitted[w][i][1] = Len(allNamesList)

\* a further call can be made from this state
CanCall == wpc[1] = "idle" /\ currentGen[1] < GenStart + 2 * MaxCalls

\* C4: from every buffer and generation a worker can hold when it calls the
\* validator, and for every two token vectors, the validator decides (x, y)
\* as it decides (y, x).
C4_Commutative ==
  CanCall =>
    \A x \in Vecs : \A y \in Vecs :
      validateOptimized(x, y, WordToMatches, matchesBuffer[1],
                        NextGen(currentGen[1])).ok
        = validateOptimized(y, x, WordToMatches, matchesBuffer[1],
                            NextGen(currentGen[1])).ok

\* after an earlier call left its stamps, a vector with a repeated word and
\* a vector with a word that has no entry are accepted in both orders
C4_Witness ==
  /\ CanCall
  /\ currentGen[1] > GenStart
  /\ \E id \in VIds : matchesBuffer[1][id] # 0
  /\ \E x \in Vecs : \E y \in Vecs :
       /\ x # y
       /\ \E i \in 1..Len(x) : IsDupe(x, i)
       /\ \E i \in 1..Len(y) : y[i] \notin DOMAIN WordToMatches
       /\ validateOptimized(x, y, WordToMatches, matchesBuffer[1],
                            NextGen(currentGen[1])).ok
       /\ validateOptimized(y, x, WordToMatches, matchesBuffer[1],
                            NextGen(currentGen[1])).ok

\* two word ids are equivalent: equal, or one is listed as a match of the other
Equivalent(t, u) ==
  \/ t = u
  \/ u \in DOMAIN WordToMatches /\ t \in Range(WordToMatches[u])
  \/ t \in DOMAIN WordToMatches /\ u \in Range(WordToMatches[t])

\* the distinct words of x that are equivalent to a word of y
SharedDistinct(x, y) ==
  Cardinality({t \in Range(x) : \E u \in Range(y) : Equivalent(t, u)})

\* the word occurrences of x that are equivalent to a word of y
SharedWords(x, y) ==
  Cardinality({i \in 1..Len(x) : \E u \in Range(y) : Equivalent(x[i], u)})

\* C5 as stated: the two names of every pair written share at least two
\* distinct matching words, in both directions.
C5_TwoDistinctShared ==
  \A w \in Workers : \A i \in 1..Len(emitted[w]) :
    LET ids1 == IdsOf(NameWords, emitted[w][i][2])
        ids2 == IdsOf(NameWords, emitted[w][i][3])
    IN  SharedDistinct(ids1, ids2) >= 2 /\ SharedDistinct(ids2, ids1) >= 2

\* C6 as stated: when both names of a pair written have at least three
\* words, they share at least three matching words.
C6_ThreeSharedWhenBothLong ==
  \A w \in Workers : \A i \in 1..Len(emitted[w]) :
    LET ids1 == IdsOf(NameWords, emitted[w][i][2])
        ids2 == IdsOf(NameWords, emitted[w][i][3])
    IN  (Len(ids1) >= 3 /\ Len(ids2) >= 3) =>
          (SharedWords(ids1, ids2) >= 3 /\ SharedWords(ids2, ids1) >= 3)

\* the documents obtained by appending one or two words to the match list
\* of one word (a word without an entry gets the appended words as its list)
Enlargements(raw) ==
  LET words == Range(Dict)
      added == {<<m>> : m \in words} \cup
               {q \in words \X words : q[1] # q[2]}
      old(w) == IF w \in DOMAIN raw.word_to_matches
                THEN raw.word_to_matches[w] ELSE <<>>
  IN  {[raw EXCEPT !.word_to_matches =
          [k \in (DOMAIN raw.word_to_matches) \cup {e[1]} |->
             IF k = e[1] THEN old(e[1]) \o e[2]
             ELSE raw.word_to_matches[k]]]
       : e \in words \X added}

\* C7: every line of the merged output is also a line of the output the
\* input yields after any match list has been enlarged.
C7_Monotone ==
  mainPc = "done" =>
    \A bigger \in Enlargements(RawInput) :
      Range(output) \subseteq ReferenceLines(bigger)

\* a finished run with output, for which enlarging the list of a
\* multi-character word (so its tradeouts too) adds a pair
C7_Witness ==
  /\ mainPc = "done"
  /\ output # <<>>
  /\ \E bigger \in Enlargements(RawInput) :
       /\ \E k \in DOMAIN bigger.word_to_matches :
            /\ Len(k) > 1
            /\ bigger.word_to_matches[k] # RawInput.word_to_matches[k]
       /\ Range(output) \subseteq ReferenceLines(bigger)
       /\ Range(output) # ReferenceLines(bigger)

\* C8: an accepted call with |A| = 3 and |B| >= 3 counted no mismatch in A,
\* and one with |B| = 3 and |A| >= 3 counted no mismatch in B.
C8_ThreeTokenStrict ==
  \A w \in Workers :
    (lastCall[w].called /\ lastCall[w].ok) =>
      /\ (lastCall[w].lenA = 3 /\ lastCall[w].lenB >= 3) =>
            lastCall[w].mismatchesA = 0
      /\ (lastCall[w].lenB = 3 /\ lastCall[w].lenA >= 3) =>
            lastCall[w].mismatchesB = 0

\* an accepted call on a three-word A and a four-word B with a mismatch in B
C8_Witness ==
  \E w \in Workers :
    /\ lastCall[w].called /\ lastCall[w].ok
    /\ lastCall[w].lenA = 3 /\ lastCall[w].lenB = 4
    /\ lastCall[w].mismatchesA = 0 /\ lastCall[w].mismatchesB > 0

\* C9: an accepted call has lenA - mismatchesA >= 2 and
\* lenB - mismatchesB >= 2.
C9_ThresholdFloor ==
  \A w \in Workers :
    (lastCall[w].called /\ lastCall[w].ok) =>
      /\ lastCall[w].lenA - lastCall[w].mismatchesA >= 2
      /\ lastCall[w].lenB - lastCall[w].mismatchesB >= 2

\* an accepted call that sits exactly on the floor on both sides, with
\* mismatches on both sides
C9_Witness ==
  \E w \in Workers :
    /\ lastCall[w].called /\ lastCall[w].ok
    /\ lastCall[w].mismatchesA > 0 /\ lastCall[w].mismatchesB > 0
    /\ lastCall[w].lenA - lastCall[w].mismatchesA = 2
    /\ lastCall[w].lenB - lastCall[w].mismatchesB = 2

\* C10: both names of every pair written are names of all_names with at
\* least two words.
C10_NoShortName ==
  \A w \in Workers : \A i \in 1..Len(emitted[w]) : \A k \in {2, 3} :
    /\ Len(Fields(emitted[w][i][k])) >= 2
    /\ emitted[w][i][k] \in Range(allNamesList)
    /\ Len(IdsOf(NameWords, emitted[w][i][k])) >= 2

\* a one-word name was dequeued and skipped, and a worker has validated
\* and rejected both a one-word name and a name absent from all_names
\* taken from a bucket
C10_Witness ==
  /\ \E k \in 1..sent : Len(Fields(allNamesList[k])) < 2
  /\ jobs = <<>>
  /\ \E w \in Workers :
       /\ lastCall[w].called /\ ~lastCall[w].ok
       /\ lastCall[w].lenB = 0
       /\ wpc[w] = "cand"
       /\ \E key \in DOMAIN PairToNames : \E j \in 1..Len(PairToNames[key]) :
            /\ PairToNames[key][j] \notin Range(allNamesList)
            /\ \E j2 \in 1..(j - 1) :
                 Len(IdsOf(NameWords, PairToNames[key][j2])) = 1
       /\ emitted[w] = <<>>

\* the outcome the scenario table gives for a pair of names
ScenarioExpected ==
  LET N == ScenarioNames
  IN  (<<N.johnCWeymouth, N.charlesWeymouth>> :> FALSE) @@
      (<<N.bobbyWeymouth, N.robertW>> :> FALSE) @@
      (<<N.charlesWeymouth, N.charlieWeymouth>> :> TRUE) @@
      (<<N.charlieJamesCWeymouth, N.charlieJames>> :> TRUE) @@
      (<<N.charlieCW, N.charlieJames>> :> FALSE) @@
      (<<N.weymouthJean, N.weymouthJeanette>> :> FALSE)

\* the last call was made on the two names of p, in this or the other order
CalledOn(p) ==
  /\ lastCall[1].called
  /\ \/ /\ lastCall[1].partsA = IdsOf(NameWords, p[1])
        /\ lastCall[1].partsB = IdsOf(NameWords, p[2])
     \/ /\ lastCall[1].partsA = IdsOf(NameWords, p[2])
        /\ lastCall[1].partsB = IdsOf(NameWords, p[1])

\* C11: under the reflexive table with the three nickname groups the
\* validator rejects S1, S2, S5 and S6 and accepts S3 and S4, in either
\* argument order and whatever earlier calls left in the buffer.
C11_Scenarios ==
  \A p \in DOMAIN ScenarioExpected :
    CalledOn(p) => lastCall[1].ok = ScenarioExpected[p]

\* S4 accepted with the two-word name as A, on a buffer an earlier call
\* has stamped: two matches on each side, two mismatches in B
C11_Witness ==
  /\ CalledOn(<<ScenarioNames.charlieJamesCWeymouth, ScenarioNames.charlieJames>>)
  /\ lastCall[1].ok
  /\ lastCall[1].lenA = 2 /\ lastCall[1].lenB = 4
  /\ lastCall[1].mismatchesA = 0 /\ lastCall[1].mismatchesB = 2
  /\ lastCall[1].gen > GenStart + 2
  /\ \E x \in DOMAIN lastCall[1].before : lastCall[1].before[x] # 0

\* C12 as stated: started with fewer than two positional arguments, the
\* process prints the usage line and ends with a non-zero exit status,
\* having loaded nothing and started no worker.
C12_UsageExitsNonZero ==
  (osArgs < MinArgs /\ exitCode # -1) =>
    /\ stdout = <<UsageLine>>
    /\ exitCode # 0
    /\ inputDoc = NoDocument
    /\ numWorkers = 0
    /\ wpc = <<>>

\* every name is enqueued, the channel is closed and drained, every worker
\* and the monitor have ended, and main has merged and returned
Finished ==
  /\ mainPc = "done"
  /\ sent = Len(allNamesList)
  /\ jobsClosed
  /\ jobs = <<>>
  /\ \A w \in Workers : wpc[w] = "done"
  /\ monPc = "done"

RECURSIVE Receives(_)
Receives(n) == IF n = 0 THEN 0 ELSE Receives(n - 1) + Len(dequeued[n])

\* C14: the counter equals the number of names received from the channel,
\* short names included and whatever the number of candidates; every
\* name occurrence is received by one worker, once; the counter never
\* exceeds len(all_names) and equals it when every worker has exited.
C14_CountsDequeues ==
  /\ namesProcessed = Receives(numWorkers)
  /\ namesProcessed = sent - Len(jobs)
  /\ namesProcessed <= Len(allNamesList)
  /\ \A w \in Workers : \A v \in Workers :
       \A i \in 1..Len(dequeued[w]) : \A j \in 1..Len(dequeued[v]) :
         (dequeued[w][i] = dequeued[v][j]) => (w = v /\ i = j)
  /\ (numWorkers >= 1 /\ \A w \in Workers : wpc[w] = "done") =>
       namesProcessed = Len(allNamesList)

\* both workers have exited after each received a name, one of the names
\* having a single word and one having made the worker validate candidates
C14_Witness ==
  /\ numWorkers = 2
  /\ \A w \in Workers : wpc[w] = "done" /\ dequeued[w] # <<>>
  /\ \E w \in Workers : \E i \in 1..Len(dequeued[w]) :
       Len(IdsOf(NameWords, allNamesList[dequeued[w][i]])) < 2
  /\ \E w \in Workers : lastCall[w].called
  /\ namesProcessed = Len(allNamesList)

\* what main and the monitor own
driverState == <<setup, stdout, exitCode, jobsClosed, sent, mainPc, monPc,
                 lastProgress, output>>

\* the locals of worker v are left as they are
SameLocals(v) ==
  /\ wpc'[v] = wpc[v]
  /\ dequeued'[v] = dequeued[v]
  /\ curJob'[v] = curJob[v]
  /\ pairs'[v] = pairs[v]
  /\ cands'[v] = cands[v]
  /\ matchesBuffer'[v] = matchesBuffer[v]
  /\ currentGen'[v] = currentGen[v]
  /\ seenMatches'[v] = seenMatches[v]
  /\ writerBuf'[v] = writerBuf[v]
  /\ tempFile'[v] = tempFile[v]
  /\ emitted'[v] = emitted[v]
  /\ lastCall'[v] = lastCall[v]

\* C15: a step of a worker leaves NameWords, WordToMatches, TradeoutSets,
\* PairToNames and the interner as they are, and changes nothing of
\* another worker, of main or of the monitor: only its own locals, the
\* channel it receives from and the progress counter.
C15_TablesReadOnly ==
  [][\A w \in 1..MaxWorkers :
       WorkerStep(w) =>
         /\ UNCHANGED tables
         /\ UNCHANGED driverState
         /\ \A v \in Workers \ {w} : SameLocals(v)]_vars

\* a worker has built the keys of a name one of whose words has a tradeout
\* slice that is shared with WordToMatches and is not in id order, and has
\* run the validator
C15_Witness ==
  \E w \in Workers :
    /\ wpc[w] = "cand"
    /\ lastCall[w].called
    /\ \E id \in Range(IdsOf(NameWords, allNamesList[curJob[w]])) :
         /\ id \in DOMAIN TradeoutSets
         /\ Len(GetStr(Dict, id)) # 1
         /\ TradeoutSets[id] # SortUnique(Range(TradeoutSets[id]))
         /\ WordToMatches[id] = TradeoutSets[id]

\* x is stamped by a populate loop over `parts`: it is a match of a word of
\* `parts` that has an entry
StampedBy(x, parts) ==
  \E i \in 1..Len(parts) :
     /\ parts[i] \in DOMAIN WordToMatches
     /\ \E k \in 1..Len(WordToMatches[parts[i]]) : WordToMatches[parts[i]][k] = x

\* C16: generation isolation. In every worker the counter is GenStart plus
\* an even number and no cell is above the last stamp used; when a call
\* starts every cell is below its gen; when A is checked a cell holds gen
\* iff phase 1 of this call stamped it, and when B is checked a cell holds
\* gen + 1 iff phase 2 of this call stamped it.
C16_GenerationIsolation ==
  \A w \in Workers :
    /\ currentGen[w] >= GenStart
    /\ (currentGen[w] - GenStart) % 2 = 0
    /\ \A x \in DOMAIN matchesBuffer[w] : matchesBuffer[w][x] <= currentGen[w] + 1
    /\ lastCall[w].called =>
         /\ lastCall[w].gen = currentGen[w]
         /\ \A x \in DOMAIN lastCall[w].before : lastCall[w].before[x] < lastCall[w].gen
         /\ \A x \in DOMAIN lastCall[w].buf1 :
              lastCall[w].buf1[x] = lastCall[w].gen <=> StampedBy(x, lastCall[w].partsB)
         /\ \A x \in DOMAIN lastCall[w].buf2 :
              lastCall[w].buf2[x] = lastCall[w].gen + 1 <=> StampedBy(x, lastCall[w].partsA)

\* a second call on a buffer in which the first call's phase 2 left its
\* stamp on a cell that neither phase of the second call stamps
C16_Witness ==
  \E w \in Workers :
    /\ lastCall[w].called
    /\ lastCall[w].gen = GenStart + 4
    /\ \E x \in DOMAIN lastCall[w].before :
         /\ lastCall[w].before[x] = GenStart + 3
         /\ ~StampedBy(x, lastCall[w].partsB)
         /\ ~StampedBy(x, lastCall[w].partsA)
         /\ lastCall[w].buf2[x] = GenStart + 3

\* the matches of w as the validator is described to read them: the entry
\* of w, or w alone when w has no entry
MatchesOrSelf(w) ==
  IF w \in DOMAIN WordToMatches THEN Range(WordToMatches[w]) ELSE {w}

\* the words of `parts` that are not duplicates of an earlier position and
\* are in the matches of no word of `others`
Unmatched(parts, others) ==
  {i \in 1..Len(parts) :
     /\ \A k \in 1..(i - 1) : parts[k] # parts[i]
     /\ \A j \in 1..Len(others) : parts[i] \notin MatchesOrSelf(others[j])}

\* C17: a word without an entry in WordToMatches stands for itself: phase 1
\* stamps it when it is a word of B, phase 2 when it is a word of A, and
\* the two mismatch counts are those of the words matched by no word of
\* the other name.
C17_AbsentEntryIsSelf ==
  \A w \in Workers :
    lastCall[w].called =>
      /\ \A i \in 1..lastCall[w].lenB :
           lastCall[w].partsB[i] \notin DOMAIN WordToMatches
             => lastCall[w].buf1[lastCall[w].partsB[i]] = lastCall[w].gen
      /\ \A i \in 1..lastCall[w].lenA :
           lastCall[w].partsA[i] \notin DOMAIN WordToMatches
             => lastCall[w].buf2[lastCall[w].partsA[i]] = lastCall[w].gen + 1
      /\ lastCall[w].mismatchesA
           = Cardinality(Unmatched(lastCall[w].partsA, lastCall[w].partsB))
      /\ lastCall[w].mismatchesB
           = Cardinality(Unmatched(lastCall[w].partsB, lastCall[w].partsA))

\* C18: the keys built for a name are pairwise distinct.
C18_NoDuplicateKey ==
  \A w \in Workers :
    curJob[w] # 0 =>
      \A a, b \in 1..Len(pairs[w]) : a # b => pairs[w][a] # pairs[w][b]

\* the words of the name worker w is working on
PartsOf(w) == NameWords[allNamesList[curJob[w]]]

\* opts[i] as a set: the word at position i and its replacements
OptsAt(w, i) ==
  {PartsOf(w)[i]} \cup
  (IF PartsOf(w)[i] \in DOMAIN TradeoutSets
   THEN Range(TradeoutSets[PartsOf(w)[i]]) ELSE {})

\* the smaller string, "_", the larger string
KeyOf(s, t) == IF StrLess(t, s) THEN t \o <<"_">> \o s ELSE s \o <<"_">> \o t

\* every key of every position pair, nothing skipped
AllKeys(w) ==
  UNION {{KeyOf(Dict[a + 1], Dict[b + 1]) : a \in OptsAt(w, ij[1]), b \in OptsAt(w, ij[2])} :
           ij \in {p \in (1..Len(PartsOf(w))) \X (1..Len(PartsOf(w))) : p[1] < p[2]}}

\* C19: the set of keys built for a name is the set of the keys of all
\* position pairs i < j over opts[i] x opts[j], each key ordered by string
\* value; skipping the position pairs already seen loses none.
C19_DedupLosesNoKey ==
  \A w \in Workers :
    curJob[w] # 0 => Range(pairs[w]) = AllKeys(w)

\* a name with two position pairs of the same two option lists, the lists
\* different and one of them expanded, in a dictionary where a smaller id
\* holds the larger string
C19_Witness ==
  \E w \in Workers :
    /\ curJob[w] # 0
    /\ \E i, j, k \in 1..Len(PartsOf(w)) :
         /\ i < j /\ j < k
         /\ OptsAt(w, j) = OptsAt(w, k)
         /\ OptsAt(w, i) # OptsAt(w, j)
         /\ Cardinality(OptsAt(w, j)) > 1
         /\ \E a \in OptsAt(w, i), b \in OptsAt(w, j) :
              a < b /\ StrLess(Dict[b + 1], Dict[a + 1])

\* the id of the word s, which the dictionary holds
IdIn(d, s) == (CHOOSE i \in 1..Len(d) : d[i] = s) - 1

\* the supplied list of the key k, as ids
SuppliedIDs(k) ==
  [i \in 1..Len(inputDoc.word_to_matches[k]) |->
     IdIn(Dict, inputDoc.word_to_matches[k][i])]

\* the keys of the position pairs of worker w's name that leave position i out
KeysWithout(w, i) ==
  UNION {{KeyOf(Dict[a + 1], Dict[b + 1]) : a \in OptsAt(w, ij[1]), b \in OptsAt(w, ij[2])} :
           ij \in {p \in (1..Len(PartsOf(w)) \ {i}) \X (1..Len(PartsOf(w)) \ {i}) :
                     p[1] < p[2]}}

\* C20: for a one-character key of word_to_matches TradeoutSets holds the
\* key alone and WordToMatches the supplied list; for any other key both
\* hold the supplied list; and every key built for a name that is not a
\* key of the positions other than one holding an initial has that initial
\* as one of its two words.
C20_InitialsDoNotExpand ==
  /\ \A k \in DOMAIN inputDoc.word_to_matches :
       /\ WordToMatches[IdIn(Dict, k)] = SuppliedIDs(k)
       /\ Len(k) = 1 => TradeoutSets[IdIn(Dict, k)] = <<IdIn(Dict, k)>>
       /\ Len(k) # 1 => TradeoutSets[IdIn(Dict, k)] = SuppliedIDs(k)
  /\ \A w \in Workers :
       curJob[w] # 0 =>
         \A i \in 1..Len(PartsOf(w)) :
           Len(Dict[PartsOf(w)[i] + 1]) = 1 =>
             \A key \in Range(pairs[w]) \ KeysWithout(w, i) :
               \E s \in Range(Dict) : key = KeyOf(Dict[PartsOf(w)[i] + 1], s)

\* a worker has built the keys of a name that holds an initial whose
\* supplied list has another word, from a document that also has a key of
\* several characters with another word in its list
C20_Witness ==
  /\ \E k \in DOMAIN inputDoc.word_to_matches :
       Len(k) > 1 /\ Range(inputDoc.word_to_matches[k]) \ {k} # {}
  /\ \E w \in Workers :
       /\ curJob[w] # 0
       /\ \E i \in 1..Len(PartsOf(w)) :
            /\ Dict[PartsOf(w)[i] + 1] \in DOMAIN inputDoc.word_to_matches
            /\ Len(Dict[PartsOf(w)[i] + 1]) = 1
            /\ Range(inputDoc.word_to_matches[Dict[PartsOf(w)[i] + 1]])
                 \ {Dict[PartsOf(w)[i] + 1]} # {}
            /\ Range(pairs[w]) \ KeysWithout(w, i) # {}

====
